---------------------------- MODULE Spec2Model ----------------------------
(***************************************************************************)
(* CharactersComponent (src/src/app/pages/characters/characters.component  *)
(* .ts): the query orchestration that turns the search box and the page    *)
(* control into a stream of remote fetches.                                *)
(*                                                                         *)
(* The RxJS pipeline built in ngOnInit is modelled by the state its        *)
(* operators hold: the debounceTime timer, the distinctUntilChanged key,   *)
(* the value captured by startWith, and the set of fetches the switchMap   *)
(* is still subscribed to.  Time is abstracted to one action, Quiet200:    *)
(* 200 ms pass without a raw search-text change.  The subscriber semantics *)
(* are those of RxJS 7 (the version Angular releases with signals ship     *)
(* with): an exception thrown inside a next handler is reported            *)
(* asynchronously and does not end the subscription.                       *)
(***************************************************************************)
EXTENDS Integers, Sequences, FiniteSets, TLC

-----------------------------------------------------------------------------
(* Bounds of the model *)

MaxPage == 3        \* page numbers the user can select: 1..MaxPage
MaxCalls == 3       \* remote calls issued in one run

(* Program constants *)

PAGE_INIT == 1      \* new FormControl(1, ...)
SEARCH_INIT == ""   \* new FormControl('', ...)
HTTP_OK == 200
HTTP_NOT_FOUND == 404

Terms == {"", "a"}
Pages == 1..MaxPage
FailureStatuses == {0, 500, HTTP_NOT_FOUND}   \* 0: transport failure

\* success bodies: the records of one page (named by their ids) and info.count
Payloads == {[results |-> <<1>>, count |-> 1],
             [results |-> <<2, 3>>, count |-> 5]}

\* enum CharacterState
LOADING == "LOADING"
LOADED == "LOADED"
NO_DATA_FOUND == "NO_DATA_FOUND"
ERROR == "ERROR"
CharacterState == {LOADING, LOADED, NO_DATA_FOUND, ERROR}

-----------------------------------------------------------------------------
(* JavaScript values held by the characters signal: an array of records    *)
(* (each record stands for one Character, named by its id) or undefined.   *)

JsArray(s) == [kind |-> "array", items |-> s]
UNDEFINED == [kind |-> "undefined", items |-> << >>]

(* What the remote end can answer to one GET: a 2xx with a body, or a      *)
(* failure with a status.                                                  *)
Outcomes ==
    {[status |-> HTTP_OK, results |-> b.results, count |-> b.count] :
        b \in Payloads}
    \cup {[status |-> s, results |-> << >>, count |-> 0] : s \in FailureStatuses}

VARIABLES
    phase,          \* "constructed" | "active" | "errored" | "destroyed"
    searchControl,  \* searchControl.value
    pageControl,    \* pageControl.value
    primedPage,     \* the argument startWith(this.pageControl.value) captured
    totalItems,     \* signal totalItems
    characters,     \* signal characters
    state,          \* signal state
    debounceTimer,  \* debounceTime(200): armed timer and the value it holds
    distinctKey,    \* distinctUntilChanged: the last value it let through
    subs,           \* ids of the remote calls the pipeline is subscribed to
    wire,           \* ids of the remote calls that have not been answered
    nCalls,         \* number of remote calls issued (ids are 1..nCalls)
    lastCall,       \* HttpParams of the most recently issued call
    quiet,          \* the search text has stood unchanged for 200 ms
    termChanged,    \* the search text changed and no call was issued since
    ev              \* the operation that led to this state, its input and
                    \* the page number it found

vars == <<phase, searchControl, pageControl, primedPage, totalItems,
          characters, state, debounceTimer, distinctKey, subs, wire, nCalls,
          lastCall, quiet, termChanged, ev>>

Event(op, id, o) ==
    [op |-> op, id |-> id, status |-> o.status, results |-> o.results,
     count |-> o.count, page |-> pageControl]
NoOutcome == [status |-> 0, results |-> << >>, count |-> 0]

Disarmed == [armed |-> FALSE, value |-> ""]
NoKey == [has |-> FALSE, value |-> ""]
NoCall == [page |-> 0, name |-> ""]

-----------------------------------------------------------------------------
(* The operators of the pipeline, as functions of the state they hold *)

\* (variant: the operator left out, every debounced value passes)
DistinctAlwaysPasses(key, v) == TRUE

\* distinctUntilChanged(): does value v pass, given the last value passed?
DistinctUntilChanged(key, v) == ~key.has \/ key.value # v

\* (variant: the tap left out, the page number is not reset)
TapNoReset(page) == page

\* tap(() => { if (pageControl.value !== 1) pageControl.setValue(1, ...) })
TapPageReset(page) == IF page # 1 THEN 1 ELSE page

\* (variant: mergeMap, the previous inner call stays subscribed)
MergeMap(active, id) == active \cup {id}

\* switchMap: subscribing to the new inner call drops the previous one
SwitchMap(active, id) == {id}

\* the inner switchMap's project function, before the call is made
StartFetch(st) ==
    [state |-> LOADING, characters |-> JsArray(<< >>),
     totalItems |-> st.totalItems]

\* fetchCharacters: http.get(...).pipe(catchError(...)) as the notification
\* it delivers for an outcome of the GET
FetchCharacters(o) ==
    IF o.status = HTTP_OK
    THEN [kind |-> "next",
          value |-> [results |-> JsArray(o.results), hasInfo |-> TRUE,
                     count |-> o.count]]
    ELSE IF o.status = HTTP_NOT_FOUND
    THEN [kind |-> "error",
          value |-> [results |-> UNDEFINED, hasInfo |-> FALSE, count |-> 0]]
    \* return of(err): the HttpErrorResponse is delivered as a value; it has
    \* neither a results nor an info property
    ELSE [kind |-> "next",
          value |-> [results |-> UNDEFINED, hasInfo |-> FALSE, count |-> 0]]

\* (variant: the next handler forgets totalItems)
NextHandlerNoCount(st, response) ==
    [state |-> IF response.hasInfo THEN LOADED ELSE st.state,
     characters |-> response.results, totalItems |-> st.totalItems]

\* subscribe({ next: (response) => ... })
NextHandler(st, response) ==
    IF response.hasInfo
    THEN [state |-> LOADED, characters |-> response.results,
          totalItems |-> response.count]
    \* response.info.count throws a TypeError after characters was set
    ELSE [state |-> st.state, characters |-> response.results,
          totalItems |-> st.totalItems]

\* (variant: the error handler does not tell 404 from the other failures)
ErrorHandlerNo404(st, status) ==
    [state |-> ERROR, characters |-> JsArray(<< >>), totalItems |-> 0]

\* subscribe({ error: (err) => ... })
ErrorHandler(st, status) ==
    [state |-> IF status = HTTP_NOT_FOUND THEN NO_DATA_FOUND ELSE ERROR,
     characters |-> JsArray(<< >>), totalItems |-> 0]

Store == [state |-> state, characters |-> characters, totalItems |-> totalItems]

SetStore(st) ==
    /\ state' = st.state
    /\ characters' = st.characters
    /\ totalItems' = st.totalItems

\* (variant: each of the two primed channels issues a call of its own)
IssueFetchTwice(page) ==
    /\ nCalls + 2 <= MaxCalls
    /\ SetStore(StartFetch(Store))
    /\ nCalls' = nCalls + 2
    /\ lastCall' = [page |-> page, name |-> searchControl]
    /\ wire' = wire \cup {nCalls + 1, nCalls + 2}
    /\ subs' = SwitchMap(SwitchMap(subs, nCalls + 1), nCalls + 2)
    /\ termChanged' = FALSE

\* switchMap((page) => { ...; return this.fetchCharacters(params); })
\* (no operation that issues a call changes searchControl in the same step)
IssueFetch(page) ==
    /\ nCalls < MaxCalls
    /\ SetStore(StartFetch(Store))
    /\ nCalls' = nCalls + 1
    /\ lastCall' = [page |-> page, name |-> searchControl]
    /\ wire' = wire \cup {nCalls + 1}
    /\ subs' = SwitchMap(subs, nCalls + 1)
    /\ termChanged' = FALSE

-----------------------------------------------------------------------------
Init ==
    /\ phase = "constructed"
    /\ searchControl = SEARCH_INIT
    /\ pageControl = PAGE_INIT
    /\ primedPage = 0
    /\ totalItems = 0
    /\ characters = JsArray(<< >>)
    /\ state = LOADING
    /\ debounceTimer = Disarmed
    /\ distinctKey = NoKey
    /\ subs = {}
    /\ wire = {}
    /\ nCalls = 0
    /\ lastCall = NoCall
    /\ quiet = TRUE
    /\ termChanged = FALSE
    /\ ev = Event("new", 0, NoOutcome)

\* ngOnInit: both startWith operators emit on subscription, which runs the
\* outer and the inner switchMap once
NgOnInit ==
    /\ phase = "constructed"
    /\ phase' = "active"
    /\ primedPage' = pageControl
    /\ IssueFetch(primedPage')
    /\ ev' = Event("ngOnInit", 0, NoOutcome)
    /\ UNCHANGED <<searchControl, pageControl, debounceTimer, distinctKey, quiet>>

\* (variant: the switchMap sits before the debounce, every raw edit
\* unsubscribes the call in flight)
SearchInputCancels(v) ==
    /\ phase # "constructed"
    /\ v # searchControl
    /\ searchControl' = v
    /\ quiet' = FALSE
    /\ termChanged' = TRUE
    /\ debounceTimer' = IF phase = "active"
                        THEN [armed |-> TRUE, value |-> v]
                        ELSE debounceTimer
    /\ subs' = {}
    /\ ev' = Event("SearchInput", 0, NoOutcome)
    /\ UNCHANGED <<phase, pageControl, primedPage, totalItems, characters,
                   state, distinctKey, wire, nCalls, lastCall>>

\* the user edits the search box: searchControl.valueChanges emits v
SearchInput(v) ==
    /\ phase # "constructed"
    /\ v # searchControl
    /\ searchControl' = v
    /\ quiet' = FALSE
    /\ termChanged' = TRUE
    /\ debounceTimer' = IF phase = "active"
                        THEN [armed |-> TRUE, value |-> v]
                        ELSE debounceTimer
    /\ ev' = Event("SearchInput", 0, NoOutcome)
    /\ UNCHANGED <<phase, pageControl, primedPage, totalItems, characters,
                   state, distinctKey, subs, wire, nCalls, lastCall>>

\* 200 ms pass with no edit of the search box; an armed debounce timer fires
Quiet200 ==
    /\ ~quiet
    /\ quiet' = TRUE
    /\ ev' = Event("Quiet200", 0, NoOutcome)
    /\ debounceTimer' = Disarmed
    /\ IF debounceTimer.armed /\ DistinctUntilChanged(distinctKey, debounceTimer.value)
       THEN /\ distinctKey' = [has |-> TRUE, value |-> debounceTimer.value]
            /\ pageControl' = TapPageReset(pageControl)
            /\ IssueFetch(primedPage)
            /\ UNCHANGED <<phase, searchControl, primedPage>>
       ELSE UNCHANGED <<phase, searchControl, pageControl, primedPage,
                        totalItems, characters, state, distinctKey, subs,
                        wire, nCalls, lastCall, termChanged>>

\* the user selects page p: pageControl.valueChanges emits p
PageChange(p) ==
    /\ phase # "constructed"
    /\ pageControl' = p
    /\ ev' = Event("PageChange", 0, NoOutcome)
    /\ IF phase = "active"
       THEN IssueFetch(p)
       ELSE UNCHANGED <<totalItems, characters, state, subs, wire, nCalls,
                        lastCall, termChanged>>
    /\ UNCHANGED <<phase, searchControl, primedPage, debounceTimer,
                   distinctKey, quiet>>

\* the remote end answers call id with outcome o
Respond(id, o) ==
    /\ id \in wire
    /\ wire' = wire \ {id}
    /\ ev' = Event("Respond", id, o)
    /\ IF id \in subs
       THEN LET n == FetchCharacters(o) IN
            IF n.kind = "next"
            THEN /\ SetStore(NextHandler(Store, n.value))
                 /\ subs' = subs \ {id}
                 /\ UNCHANGED <<phase, debounceTimer>>
            ELSE /\ SetStore(ErrorHandler(Store, o.status))
                 /\ subs' = {}
                 /\ phase' = "errored"
                 /\ debounceTimer' = Disarmed
       ELSE UNCHANGED <<totalItems, characters, state, subs, phase,
                        debounceTimer>>
    /\ UNCHANGED <<searchControl, pageControl, primedPage, distinctKey,
                   nCalls, lastCall, quiet, termChanged>>

\* (variant: ngOnDestroy without the unsubscribe)
NgOnDestroyLeaks ==
    /\ phase \in {"active", "errored"}
    /\ phase' = "destroyed"
    /\ ev' = Event("ngOnDestroy", 0, NoOutcome)
    /\ UNCHANGED <<searchControl, pageControl, primedPage, totalItems,
                   characters, state, debounceTimer, distinctKey, subs, wire,
                   nCalls, lastCall, quiet, termChanged>>

\* ngOnDestroy: this.subscriptions.unsubscribe()
NgOnDestroy ==
    /\ phase \in {"active", "errored"}
    /\ phase' = "destroyed"
    /\ subs' = {}
    /\ debounceTimer' = Disarmed
    /\ ev' = Event("ngOnDestroy", 0, NoOutcome)
    /\ UNCHANGED <<searchControl, pageControl, primedPage, totalItems,
                   characters, state, distinctKey, wire, nCalls, lastCall,
                   quiet, termChanged>>

Next ==
    \/ NgOnInit
    \/ \E v \in Terms : SearchInput(v)
    \/ Quiet200
    \/ \E p \in Pages : PageChange(p)
    \/ \E id \in 1..MaxCalls, o \in Outcomes : Respond(id, o)
    \/ NgOnDestroy

Spec == Init /\ [][Next]_vars

TypeOK ==
    /\ phase \in {"constructed", "active", "errored", "destroyed"}
    /\ searchControl \in Terms
    /\ pageControl \in Pages
    /\ state \in CharacterState
    /\ nCalls \in 0..MaxCalls
    /\ wire \subseteq 1..nCalls
    /\ subs \subseteq wire

-----------------------------------------------------------------------------
(* Vocabulary of the properties *)

EmptyList == JsArray(<< >>)

\* this step issued a remote call
Issued == nCalls' = nCalls + 1

\* this step is the answer to the most recently issued call, arriving while
\* the component is subscribed (the call is not superseded, not torn down)
CurrentResolves == ev'.op = "Respond" /\ ev'.id = nCalls /\ phase = "active"

\* this step is the answer to a call that a later call has superseded
SupersededResolves == ev'.op = "Respond" /\ ev'.id < nCalls

\* this step is the end of 200 ms of quiet, before teardown, on a search text
\* that differs from the previously emitted debounced value
SettlesOnNewTerm ==
    /\ ev'.op = "Quiet200"
    /\ phase \in {"active", "errored"}
    /\ ~distinctKey.has \/ distinctKey.value # searchControl

\* this step is the end of 200 ms of quiet on the text that was emitted last
SettlesOnSameTerm ==
    /\ ev'.op = "Quiet200"
    /\ distinctKey.has /\ distinctKey.value = searchControl

-----------------------------------------------------------------------------
\* C1: the answer to a superseded call (a later call was issued before it
\* resolved), whatever its outcome and whenever it arrives, changes neither
\* state nor characters nor totalItems.
C1_SwitchToLatest ==
    [][SupersededResolves => UNCHANGED <<state, characters, totalItems>>]_vars

\* a success for call 1 arrives after call 2 was issued and answered
C1_Witness ==
    /\ ev.op = "Respond" /\ ev.id < nCalls /\ ev.status = HTTP_OK
    /\ nCalls \notin wire
    /\ state = LOADED /\ characters # JsArray(ev.results)

\* C2: every settled search text that differs from the previously emitted
\* one, before teardown and whatever the earlier outcomes, issues exactly
\* one remote call.
C2_OneFetchPerEmission == [][SettlesOnNewTerm => Issued]_vars

\* C3: every page change by the user before teardown, whatever the earlier
\* outcomes, issues exactly one remote call, for the new page number.
C3_OneFetchPerPageChange ==
    [][(ev'.op = "PageChange" /\ phase \in {"active", "errored"})
        => (Issued /\ lastCall'.page = pageControl')]_vars

\* C4: when the current call fails with a status other than 404 the store
\* ends with an empty list, count 0 and state ERROR.
C4_OtherFailure ==
    [][(CurrentResolves /\ ev'.status \notin {HTTP_OK, HTTP_NOT_FOUND})
        => (characters' = EmptyList /\ totalItems' = 0 /\ state' = ERROR)]_vars

\* C5: when the current call fails with 404 the store ends with an empty
\* list, count 0 and state NO_DATA_FOUND.
C5_NotFound ==
    [][(CurrentResolves /\ ev'.status = HTTP_NOT_FOUND)
        => (characters' = EmptyList /\ totalItems' = 0
            /\ state' = NO_DATA_FOUND)]_vars

\* a 404 for the current call, issued by a debounced search emission
C5_Witness ==
    /\ ev.op = "Respond" /\ ev.status = HTTP_NOT_FOUND /\ ev.id = nCalls
    /\ nCalls > 1 /\ lastCall.name # SEARCH_INIT
    /\ state = NO_DATA_FOUND /\ characters = EmptyList /\ totalItems = 0

\* C6: when the current call succeeds, in that one step characters becomes
\* the payload's results, totalItems its count and state LOADED.
C6_Success ==
    [][(CurrentResolves /\ ev'.status = HTTP_OK)
        => (characters' = JsArray(ev'.results) /\ totalItems' = ev'.count
            /\ state' = LOADED)]_vars

\* the second payload applied by the current call
C6_Witness ==
    /\ ev.op = "Respond" /\ ev.status = HTTP_OK /\ ev.id = nCalls
    /\ state = LOADED /\ characters = JsArray(<<2, 3>>) /\ totalItems = 5

\* C7: the name sent with every remote call is the initial search text or a
\* text that has stood unchanged for 200 ms when the call is issued.
C7_OnlySettledTerms ==
    [][Issued => (lastCall'.name = SEARCH_INIT \/ quiet')]_vars

\* C8 (as claimed): the first remote call issued after a change of the
\* search text carries page 1.
C8_FirstFetchAfterChange ==
    [][(termChanged /\ Issued) => lastCall'.page = 1]_vars

\* C8 (amended): the remote call issued when a changed search text is
\* emitted by the debouncer carries page 1, and the page number is 1 then,
\* whatever page was active before.
C8_EmissionFetchesPageOne ==
    [][(ev'.op = "Quiet200" /\ Issued)
        => (lastCall'.page = 1 /\ pageControl' = 1)]_vars

\* the debouncer emits while page MaxPage is active
C8_Witness ==
    /\ ev.op = "Quiet200" /\ ev.page = MaxPage /\ MaxPage # 1
    /\ lastCall = [page |-> 1, name |-> searchControl]
    /\ nCalls \in subs

\* C9: when a remote call is issued, state is LOADING, characters is empty
\* and totalItems is 0.
C9_StoreClearedAtIssue ==
    [][Issued => (state' = LOADING /\ characters' = EmptyList
                  /\ totalItems' = 0)]_vars

\* C10: when the search text settles on the value the debouncer emitted
\* last, nothing happens downstream: the page number is not reset, no call
\* is issued, the call in flight stays subscribed and the store is unchanged.
C10_RepeatSuppressed ==
    [][SettlesOnSameTerm
        => UNCHANGED <<pageControl, nCalls, lastCall, subs, wire, state,
                       characters, totalItems, distinctKey, phase>>]_vars

\* the text settles back on the emitted value while a call for page 2 or
\* more is in flight
C10_Witness ==
    /\ ev.op = "Quiet200"
    /\ distinctKey = [has |-> TRUE, value |-> searchControl]
    /\ pageControl # 1 /\ subs = {nCalls} /\ state = LOADING

\* C11: after ngOnDestroy, in every continuation, state, characters and
\* totalItems never change and no remote call is issued, whatever arrives
\* later (the debounce window ending, an answer, a search or page change).
C11_NothingAfterTeardown ==
    [][(phase = "destroyed" \/ phase' = "destroyed")
        => UNCHANGED <<state, characters, totalItems, nCalls, lastCall>>]_vars

\* a success for the call in flight at teardown arrives after teardown, and
\* after the debounce window of a search change pending at teardown
C11_Witness ==
    /\ phase = "destroyed"
    /\ ev.op = "Respond" /\ ev.id = nCalls /\ ev.status = HTTP_OK
    /\ termChanged /\ quiet
    /\ state = LOADING /\ characters = EmptyList

\* C12: on startup, with no user action, exactly one remote call is issued,
\* with page 1 and name ""; if it succeeds, the store ends LOADED with the
\* records and the count of its payload.
C12_InitialLoad ==
    /\ ev.op = "ngOnInit"
        => (nCalls = 1 /\ wire = {1} /\ subs = {1}
            /\ lastCall = [page |-> 1, name |-> ""])
    /\ (ev.op = "Respond" /\ ev.id = 1 /\ ev.status = HTTP_OK
        /\ nCalls = 1 /\ phase = "active")
        => (state = LOADED /\ characters = JsArray(ev.results)
            /\ totalItems = ev.count)

\* the initial call answered with the first payload, nothing else done
C12_Witness ==
    /\ ev.op = "Respond" /\ ev.id = 1 /\ ev.status = HTTP_OK
    /\ nCalls = 1 /\ phase = "active" /\ wire = {}
    /\ searchControl = SEARCH_INIT /\ pageControl = PAGE_INIT /\ quiet
    /\ state = LOADED /\ characters = JsArray(<<1>>) /\ totalItems = 1

\* C13: the page sent with every remote call is the value pageControl holds
\* when the call is issued (also for the call primed by the re-subscription
\* after a search emission) and the name is the value searchControl holds.
C13_ParamsAreCurrent ==
    [][Issued => (lastCall'.page = pageControl'
                  /\ lastCall'.name = searchControl')]_vars

\* a call primed by a search emission that found page 2 active
C13_Witness ==
    /\ ev.op = "Quiet200" /\ ev.page = 2
    /\ subs = {nCalls} /\ searchControl = "a"
    /\ lastCall = [page |-> pageControl, name |-> "a"]

\* this step is a fetch trigger: the initial load, a debounced search
\* emission or a page change by the user, before teardown
FetchTrigger ==
    \/ ev'.op = "ngOnInit"
    \/ ev'.op = "PageChange" /\ phase \in {"active", "errored"}
    \/ SettlesOnNewTerm

\* C14: no retry, and as many remote calls as fetch triggers: a step issues
\* one remote call if it is a fetch trigger and none otherwise (an answer,
\* with any outcome, issues none), so the two counts agree all along a run.
C14_CallsEqualTriggers ==
    [][nCalls' = nCalls + (IF FetchTrigger THEN 1 ELSE 0)]_vars

\* C15: state and the result set agree in every reachable state: LOADING
\* has an empty list; NO_DATA_FOUND and ERROR have an empty list and count 0;
\* LOADED has the list and the count of the payload of the most recently
\* issued call, whose page is the current page number.  The last part is
\* stated by how LOADED arises and lasts: it is entered only by applying the
\* payload of the current call, no newer call is pending while it lasts, and
\* the list and the count do not change while it lasts.
C15_StoreConsistent ==
    /\ [](/\ state = LOADING => characters = EmptyList
          /\ state \in {NO_DATA_FOUND, ERROR}
                => (characters = EmptyList /\ totalItems = 0)
          /\ (state = LOADED /\ phase = "active")
                => (nCalls \notin wire /\ lastCall.page = pageControl))
    /\ [][state' = LOADED
            => IF CurrentResolves /\ ev'.status = HTTP_OK
               THEN characters' = JsArray(ev'.results)
                    /\ totalItems' = ev'.count
               ELSE state = LOADED /\ UNCHANGED <<characters, totalItems>>]_vars

\* C16: state follows its state machine: LOADING initially; it changes only
\* when a call is issued (to LOADING) and when the current call is answered
\* (from LOADING to LOADED, NO_DATA_FOUND or ERROR), never directly between
\* two of LOADED, NO_DATA_FOUND and ERROR; and once the current call has been
\* answered, with no newer call issued, it is not LOADING.
C16_StateMachine ==
    /\ [](/\ phase = "constructed" => state = LOADING
          /\ (phase \in {"active", "errored"} /\ nCalls \notin wire)
                => state # LOADING)
    /\ [][state' # state
            => \/ Issued /\ state' = LOADING
               \/ /\ CurrentResolves
                  /\ state = LOADING
                  /\ state' \in {LOADED, NO_DATA_FOUND, ERROR}]_vars

\* C17: the initial search text counts as the first debounced value: a first
\* burst of edits that settles back on the initial text is suppressed as a
\* repeat and issues no remote call.
C17_InitialValuePrimesDistinct ==
    [][(ev'.op = "Quiet200" /\ phase = "active" /\ ~distinctKey.has
        /\ searchControl = SEARCH_INIT)
        => UNCHANGED <<nCalls, subs, state>>]_vars

\* C18: at most one remote call is live (issued, not answered and not
\* abandoned), and it is the most recently issued one: issuing a call
\* abandons the previous live call in the same step, whether the new call
\* comes from a search emission or from a page value.
C18_OneLiveCall ==
    /\ Cardinality(subs) <= 1
    /\ subs \subseteq wire \cap {nCalls}
    /\ ev.op \in {"ngOnInit", "PageChange"} /\ phase = "active"
        => subs = {nCalls}

\* three calls issued and none answered, the last one by a search emission:
\* the two earlier ones are abandoned
C18_Witness ==
    /\ ev.op = "Quiet200"
    /\ wire = {1, 2, 3} /\ subs = {3}
    /\ lastCall.name = "a"

\* C19: a raw edit of the search text that has not settled leaves the page
\* number, the store and the call in flight as they are; the call issued for
\* the older text stays subscribed, and when it is answered inside the
\* debounce window its result is applied.
C19_UnsettledEditIsInert ==
    [][/\ ev'.op = "SearchInput"
            => UNCHANGED <<pageControl, state, characters, totalItems, subs,
                           wire, nCalls, lastCall>>
       /\ (ev'.op = "Respond" /\ ev'.id \in subs /\ ~quiet
           /\ ev'.status = HTTP_OK)
            => (state' = LOADED /\ characters' = JsArray(ev'.results)
                /\ totalItems' = ev'.count)
       /\ (ev.op = "SearchInput" /\ phase = "active" /\ nCalls \in wire)
            => subs = {nCalls}]_vars

\* the call issued for "" is answered, and applied, while the edit to "a" is
\* less than 200 ms old
C19_Witness ==
    /\ ev.op = "Respond" /\ ev.id = nCalls /\ ev.status = HTTP_OK
    /\ ~quiet /\ termChanged /\ phase = "active"
    /\ lastCall.name = "" /\ searchControl = "a"
    /\ state = LOADED /\ characters = JsArray(ev.results)

=============================================================================
